---------------------------- MODULE Spec2Model ----------------------------
(***************************************************************************)
(* InputParser<T> (shogun/io/streaming/InputParser.h): one parse thread    *)
(* fills a ring of examples from a streaming source, one consumer takes    *)
(* them with get_next_example / finalize_example, and a controlling thread *)
(* calls init, start_parser, is_running, end_parser and exit_parser.       *)
(*                                                                         *)
(* The ring (ParseBuffer<T>, shogun/io/streaming/ParseBuffer.h) is not     *)
(* part of the sources at hand; its four operations follow the design      *)
(* document (slot states EMPTY, WRITING, READY, READING and two cursors).  *)
(*                                                                         *)
(* Granularity: one step per access to shared state.  A critical section   *)
(* of examples_state_lock that cannot block inside is one step, taken      *)
(* when the mutex is free.  The only place that can block while holding    *)
(* the mutex is retrieve_example's call of get_unused_example, so that is  *)
(* the only position at which the mutex is held across steps.              *)
(***************************************************************************)
EXTENDS Integers, Sequences, FiniteSets, TLC

\* ------------------------------------------------------------- bounds
\* Largest ring size passed to init().
MaxRing == 2
\* Largest number of well-formed examples the source holds.
MaxN == 3
\* Largest number of start_parser() calls that get as far as spawning.
MaxStarts == 2

VARIABLES
    \* InputParser members
    parsing_done,               \* bool parsing_done
    reading_done,               \* bool reading_done
    keep_running,               \* std::atomic_bool keep_running
    number_of_vectors_parsed,   \* int32_t
    number_of_vectors_read,     \* int32_t
    example_type,               \* "E_LABELLED" | "E_UNLABELLED"
    ring_size,                  \* int32_t ring_size (0: examples_ring == nullptr)
    current,                    \* current_example, current_feature_vector, current_len, current_label
    examples_state_lock,        \* owner of the mutex: "free" or "consumer"
    joinable,                   \* parse_thread.joinable()
    \* ParseBuffer (examples_ring)
    ex_ring,                    \* slot index -> [state, fv, length, label]
    write_idx,                  \* logical producer cursor (slot = write_idx % ring_size)
    read_idx,                   \* logical consumer cursor
    \* the stream source
    srcN,                       \* number of well-formed examples it holds
    srcMalformed,               \* whether a record of length 0 follows them
    srcPos,                     \* records handed out so far
    \* threads
    wpc,                        \* parse thread
    cpc,                        \* consumer thread (get_next_example / finalize_example)
    kpc,                        \* controlling thread
    nthreads,                   \* parse threads that exist (spawned, not yet returned)
    terminated,                 \* the process ended (std::terminate or a fault)
    \* what the callers observed
    out,                        \* out parameters of the last get_next_example
    nextRet,                    \* its return value (-1: none yet, or a call is in progress)
    delivered,                  \* the examples handed out by calls that returned 1
    calledStopped,              \* the last get_next_example call began with keep_running
                                \* cleared, and start_parser has not set it since
    starts                      \* start_parser() calls that spawned a thread

vars == << parsing_done, reading_done, keep_running, number_of_vectors_parsed,
           number_of_vectors_read, example_type, ring_size, current,
           examples_state_lock, joinable, ex_ring, write_idx, read_idx,
           srcN, srcMalformed, srcPos, wpc, cpc, kpc, nthreads, terminated,
           out, nextRet, delivered, calledStopped, starts >>

flagVars == << parsing_done, reading_done, keep_running >>
countVars == << number_of_vectors_parsed, number_of_vectors_read >>
ringVars == << ex_ring, write_idx, read_idx >>
cfgVars == << example_type, ring_size, srcN, srcMalformed >>
consumerObs == << out, nextRet, delivered, calledStopped >>

\* ------------------------------------------------------------- the source
\* The k-th well-formed example (k = 1, 2, ...): vector handle k, one or two
\* features, label 0.0 / 1.0.
SourceExample(k) == [fv |-> k, length |-> 1 + (k % 2), label |-> k % 2]

\* What the source's read operation stores through its reference parameters
\* on its (p+1)-th call, given the values fv0/label0 they held: a well-formed
\* example, then (if malformed) one record of length 0, then length -1.
SourceRead(p, n, malformed, fv0, label0) ==
    IF p < n THEN SourceExample(p + 1)
    ELSE IF malformed /\ p = n THEN [fv |-> fv0, length |-> 0, label |-> label0]
    ELSE [fv |-> fv0, length |-> -1, label |-> label0]

\* ------------------------------------------------------------- the ring
\* An example nobody has written yet.
FreshSlot == [state |-> "EMPTY", fv |-> 0, length |-> 0, label |-> 0]

\* ParseBuffer(size): `size` slots, all EMPTY.
RingInit(size) == [i \in 0..(size - 1) |-> FreshSlot]

WriteSlot == write_idx % ring_size
ReadSlot == read_idx % ring_size

\* Mutant of CanGetFree: get_free_example does not wait.
CanGetFree_NoWait == TRUE

\* get_free_example() returns once the slot at write_idx is EMPTY, and marks
\* it WRITING.
CanGetFree == ex_ring[WriteSlot].state = "EMPTY"
GetFreeExample(ring, i) == [ring EXCEPT ![i].state = "WRITING"]

\* copy_example(): the slot is READY (write_idx advances with it).
CopyExample(ring, i) == [ring EXCEPT ![i].state = "READY"]

\* get_unused_example() returns once the slot at read_idx is READY, and marks
\* it READING.
CanGetUnused == ex_ring[ReadSlot].state = "READY"
GetUnusedExample(ring, i) == [ring EXCEPT ![i].state = "READING"]

\* Mutant of FinalizeExample: the slot is not released.
FinalizeExample_KeepsState(ring, i, free_vec) == ring

\* finalize_example(free_vec): the slot is EMPTY again, its vector released
\* if asked for (read_idx advances with it).
FinalizeExample(ring, i, free_vec) ==
    [ring EXCEPT ![i].state = "EMPTY",
                 ![i].fv = IF free_vec THEN 0 ELSE @]

\* init_vector(): storage for the slots' vectors; no slot state or cursor changes.
InitVector(ring) == ring

\* ------------------------------------------------------------- values
\* The value of a read through an uninitialized or null Example<T>*.
Indeterminate == [fv |-> -1, length |-> -1, label |-> -1]

NoExample == [fv |-> 0, length |-> 0, label |-> 0]

\* init() sets free_after_release = true; set_free_vector_after_release is
\* not called.
free_after_release == TRUE

\* Mutant of NotifyOne: the notification is left out.
NotifyOne_Omitted(c) == c

\* examples_state_changed.notify_one(): the consumer is the only thread that
\* ever waits on the condition.
NotifyOne(c) == IF c = "c_wait" THEN "c_woken" ELSE c

\* ------------------------------------------------------------- construction
\* InputParser(): examples_ring = nullptr, both flags true, keep_running false.
\* The counters and current_* are not set by the constructor and are not read
\* before init() sets them.
Init ==
    /\ parsing_done = TRUE
    /\ reading_done = TRUE
    /\ keep_running = FALSE
    /\ number_of_vectors_parsed = 0
    /\ number_of_vectors_read = 0
    /\ example_type = "E_LABELLED"
    /\ ring_size = 0
    /\ current = [example |-> -1, fv |-> 0, len |-> -1, label |-> -1]
    /\ examples_state_lock = "free"
    /\ joinable = FALSE
    /\ ex_ring = RingInit(0)
    /\ write_idx = 0
    /\ read_idx = 0
    /\ srcN \in 0..MaxN
    /\ srcMalformed \in BOOLEAN
    /\ srcPos = 0
    /\ wpc = "w_none"
    /\ cpc = "c_idle"
    /\ kpc = "k_new"
    /\ nthreads = 0
    /\ terminated = FALSE
    /\ out = NoExample
    /\ nextRet = -1
    /\ delivered = << >>
    /\ calledStopped = FALSE
    /\ starts = 0

\* ------------------------------------------------------------- parse thread
\* The parse thread returns from main_parse_loop.
WorkerExit ==
    /\ wpc' = "w_done"
    /\ nthreads' = nthreads - 1

\* Mutant of W_Loop: the loop does not test keep_running.
W_Loop_NoTest ==
    /\ ~terminated /\ wpc = "w_loop"
    /\ wpc' = "w_check" /\ UNCHANGED nthreads
    /\ UNCHANGED << flagVars, countVars, ringVars, cfgVars, consumerObs, current,
                    examples_state_lock, joinable, srcPos, cpc, kpc, terminated, starts >>

\* while (keep_running.load(...))
W_Loop ==
    /\ ~terminated /\ wpc = "w_loop"
    /\ IF keep_running
       THEN wpc' = "w_check" /\ UNCHANGED nthreads
       ELSE WorkerExit
    /\ UNCHANGED << flagVars, countVars, ringVars, cfgVars, consumerObs, current,
                    examples_state_lock, joinable, srcPos, cpc, kpc, terminated, starts >>

\* lock; if (parsing_done) return NULL; unlock
W_Check ==
    /\ ~terminated /\ wpc = "w_check"
    /\ examples_state_lock = "free"
    /\ IF parsing_done
       THEN WorkerExit
       ELSE wpc' = "w_getfree" /\ UNCHANGED nthreads
    /\ UNCHANGED << flagVars, countVars, ringVars, cfgVars, consumerObs, current,
                    examples_state_lock, joinable, srcPos, cpc, kpc, terminated, starts >>

\* current_example = examples_ring->get_free_example(); current_* = its fields
W_GetFree ==
    /\ ~terminated /\ wpc = "w_getfree"
    /\ CanGetFree
    /\ ex_ring' = GetFreeExample(ex_ring, WriteSlot)
    /\ current' = [example |-> WriteSlot,
                   fv |-> ex_ring[WriteSlot].fv,
                   len |-> ex_ring[WriteSlot].length,
                   label |-> ex_ring[WriteSlot].label]
    /\ wpc' = "w_read"
    /\ UNCHANGED << flagVars, countVars, write_idx, read_idx, cfgVars, consumerObs,
                    examples_state_lock, joinable, srcPos, cpc, kpc, nthreads,
                    terminated, starts >>

\* if (current_len < 0): the read is taken for the end of the stream.
ReadFailed(len) == len < 0

\* get_vector_and_label(...) or get_vector_only(...); their return value is
\* not looked at.  Then the test of current_len.
W_Read ==
    /\ ~terminated /\ wpc = "w_read"
    /\ LET r == SourceRead(srcPos, srcN, srcMalformed, current.fv, current.label)
           len == r.length
       IN /\ current' = [current EXCEPT
                           !.fv = r.fv,
                           !.len = len,
                           !.label = IF example_type = "E_LABELLED" THEN r.label ELSE @]
          /\ wpc' = IF ReadFailed(len) THEN "w_eof" ELSE "w_store"
    /\ srcPos' = srcPos + 1
    /\ UNCHANGED << flagVars, countVars, ringVars, cfgVars, consumerObs,
                    examples_state_lock, joinable, cpc, kpc, nthreads, terminated, starts >>

\* Mutant of W_Eof: the return is left out and control falls through to the
\* stores and the publication.
W_Eof_FallsThrough ==
    /\ ~terminated /\ wpc = "w_eof"
    /\ examples_state_lock = "free"
    /\ parsing_done' = TRUE
    /\ cpc' = NotifyOne(cpc)
    /\ wpc' = "w_store"
    /\ UNCHANGED << reading_done, keep_running, countVars, ringVars, cfgVars, consumerObs,
                    current, examples_state_lock, joinable, srcPos, kpc, nthreads,
                    terminated, starts >>

\* lock; parsing_done = true; notify_one; return NULL
W_Eof ==
    /\ ~terminated /\ wpc = "w_eof"
    /\ examples_state_lock = "free"
    /\ parsing_done' = TRUE
    /\ cpc' = NotifyOne(cpc)
    /\ WorkerExit
    /\ UNCHANGED << reading_done, keep_running, countVars, ringVars, cfgVars, consumerObs,
                    current, examples_state_lock, joinable, srcPos, kpc, terminated, starts >>

\* Mutant of W_Store: the example is stored into the slot after the claimed one.
W_Store_WrongSlot ==
    /\ ~terminated /\ wpc = "w_store"
    /\ ex_ring' = [ex_ring EXCEPT ![(current.example + 1) % ring_size].label = current.label,
                                  ![(current.example + 1) % ring_size].fv = current.fv,
                                  ![(current.example + 1) % ring_size].length = current.len]
    /\ wpc' = "w_copy"
    /\ UNCHANGED << flagVars, countVars, write_idx, read_idx, cfgVars, consumerObs, current,
                    examples_state_lock, joinable, srcPos, cpc, kpc, nthreads,
                    terminated, starts >>

\* current_example->label = ...; ->fv = ...; ->length = ...
W_Store ==
    /\ ~terminated /\ wpc = "w_store"
    /\ ex_ring' = [ex_ring EXCEPT ![current.example].label = current.label,
                                  ![current.example].fv = current.fv,
                                  ![current.example].length = current.len]
    /\ wpc' = "w_copy"
    /\ UNCHANGED << flagVars, countVars, write_idx, read_idx, cfgVars, consumerObs, current,
                    examples_state_lock, joinable, srcPos, cpc, kpc, nthreads,
                    terminated, starts >>

\* examples_ring->copy_example(current_example)
W_Copy ==
    /\ ~terminated /\ wpc = "w_copy"
    /\ ex_ring' = CopyExample(ex_ring, current.example)
    /\ write_idx' = write_idx + 1
    /\ wpc' = "w_inc"
    /\ UNCHANGED << flagVars, countVars, read_idx, cfgVars, consumerObs, current,
                    examples_state_lock, joinable, srcPos, cpc, kpc, nthreads,
                    terminated, starts >>

\* lock; number_of_vectors_parsed++; notify_one; (end of the loop body: unlock)
W_Inc ==
    /\ ~terminated /\ wpc = "w_inc"
    /\ examples_state_lock = "free"
    /\ number_of_vectors_parsed' = number_of_vectors_parsed + 1
    /\ cpc' = NotifyOne(cpc)
    /\ wpc' = "w_loop"
    /\ UNCHANGED << flagVars, number_of_vectors_read, ringVars, cfgVars, consumerObs,
                    current, examples_state_lock, joinable, srcPos, kpc, nthreads,
                    terminated, starts >>

Worker == W_Loop \/ W_Check \/ W_GetFree \/ W_Read \/ W_Eof \/ W_Store \/ W_Copy \/ W_Inc

\* ------------------------------------------------------------- consumer
\* Mutant of DrainReached: the test of parsing_done is left out.
DrainReached_CountersOnly ==
    number_of_vectors_read = number_of_vectors_parsed

\* Mutant of DrainReached: the counters are not compared.
DrainReached_FlagOnly ==
    parsing_done

\* if (parsing_done) if (number_of_vectors_read == number_of_vectors_parsed)
DrainReached ==
    parsing_done /\ number_of_vectors_read = number_of_vectors_parsed

\* Mutant of NothingToRead: both early returns are left out.
NothingToRead_Never == FALSE

\* if (number_of_vectors_parsed <= 0) return NULL;
\* if (number_of_vectors_read == number_of_vectors_parsed) return NULL;
NothingToRead ==
    \/ number_of_vectors_parsed <= 0
    \/ number_of_vectors_read = number_of_vectors_parsed

\* The consumer calls get_next_example (after start_parser has returned).
C_Call ==
    /\ ~terminated /\ cpc = "c_idle"
    /\ starts >= 1
    /\ cpc' = "c_loop"
    /\ nextRet' = -1
    /\ calledStopped' = ~keep_running
    /\ UNCHANGED << flagVars, countVars, ringVars, cfgVars, out, delivered, current,
                    examples_state_lock, joinable, srcPos, wpc, kpc, nthreads,
                    terminated, starts >>

\* while (keep_running.load(...)); when it is false control leaves the loop
\* and reaches the reads through ex.
C_Loop ==
    /\ ~terminated /\ cpc = "c_loop"
    /\ cpc' = IF keep_running THEN "c_rd" ELSE "c_ub"
    /\ UNCHANGED << flagVars, countVars, ringVars, cfgVars, consumerObs, current,
                    examples_state_lock, joinable, srcPos, wpc, kpc, nthreads,
                    terminated, starts >>

\* if (reading_done) return 0;
C_Rd ==
    /\ ~terminated /\ cpc = "c_rd"
    /\ IF reading_done
       THEN cpc' = "c_idle" /\ nextRet' = 0
       ELSE cpc' = "c_lock" /\ UNCHANGED nextRet
    /\ UNCHANGED << flagVars, countVars, ringVars, cfgVars, out, delivered, calledStopped,
                    current, examples_state_lock, joinable, srcPos, wpc, kpc, nthreads,
                    terminated, starts >>

\* lock; ex = retrieve_example() up to its call of get_unused_example;
\* for ex == NULL: return 0 if reading_done, else wait(lock).
C_Lock ==
    /\ ~terminated /\ cpc = "c_lock"
    /\ examples_state_lock = "free"
    /\ IF DrainReached
       THEN /\ reading_done' = TRUE
            /\ cpc' = "c_idle"
            /\ nextRet' = 0
            /\ UNCHANGED examples_state_lock
       ELSE IF NothingToRead
       THEN /\ cpc' = "c_wait"
            /\ UNCHANGED << reading_done, nextRet, examples_state_lock >>
       ELSE /\ cpc' = "c_getunused"
            /\ examples_state_lock' = "consumer"
            /\ UNCHANGED << reading_done, nextRet >>
    /\ UNCHANGED << parsing_done, keep_running, countVars, ringVars, cfgVars, out,
                    delivered, calledStopped, current, joinable, srcPos, wpc, kpc, nthreads,
                    terminated, starts >>

\* Mutant of C_GetUnused: number_of_vectors_read is not incremented.
C_GetUnused_NoCount ==
    /\ ~terminated /\ cpc = "c_getunused"
    /\ CanGetUnused
    /\ ex_ring' = GetUnusedExample(ex_ring, ReadSlot)
    /\ examples_state_lock' = "free"
    /\ cpc' = "c_fill"
    /\ UNCHANGED << flagVars, countVars, write_idx, read_idx, cfgVars,
                    consumerObs, current, joinable, srcPos, wpc, kpc, nthreads,
                    terminated, starts >>

\* ex = examples_ring->get_unused_example(); number_of_vectors_read++;
\* break (the lock is released)
C_GetUnused ==
    /\ ~terminated /\ cpc = "c_getunused"
    /\ CanGetUnused
    /\ ex_ring' = GetUnusedExample(ex_ring, ReadSlot)
    /\ number_of_vectors_read' = number_of_vectors_read + 1
    /\ examples_state_lock' = "free"
    /\ cpc' = "c_fill"
    /\ UNCHANGED << flagVars, number_of_vectors_parsed, write_idx, read_idx, cfgVars,
                    consumerObs, current, joinable, srcPos, wpc, kpc, nthreads,
                    terminated, starts >>

\* The wait returns (the mutex is taken again); continue.
C_Woken ==
    /\ ~terminated /\ cpc = "c_woken"
    /\ examples_state_lock = "free"
    /\ cpc' = "c_loop"
    /\ UNCHANGED << flagVars, countVars, ringVars, cfgVars, consumerObs, current,
                    examples_state_lock, joinable, srcPos, wpc, kpc, nthreads,
                    terminated, starts >>

\* A condition variable may wake without a notification.
C_SpuriousWakeup ==
    /\ ~terminated /\ cpc = "c_wait"
    /\ cpc' = "c_woken"
    /\ UNCHANGED << flagVars, countVars, ringVars, cfgVars, consumerObs, current,
                    examples_state_lock, joinable, srcPos, wpc, kpc, nthreads,
                    terminated, starts >>

\* What the caller receives: the two-parameter overload passes a dummy label.
Received(slot) ==
    [fv |-> slot.fv, length |-> slot.length,
     label |-> IF example_type = "E_LABELLED" THEN slot.label ELSE NoExample.label]

\* fv = ex->fv; length = ex->length; label = ex->label; return 1;
C_Fill ==
    /\ ~terminated /\ cpc = "c_fill"
    /\ out' = Received(ex_ring[ReadSlot])
    /\ delivered' = Append(delivered, out')
    /\ nextRet' = 1
    /\ cpc' = "c_have"
    /\ UNCHANGED << calledStopped, flagVars, countVars, ringVars, cfgVars, current,
                    examples_state_lock, joinable, srcPos, wpc, kpc, nthreads,
                    terminated, starts >>

\* The same three reads with ex never assigned (keep_running was false on
\* entry) or NULL (it was cleared during a wait): the call faults, or it
\* returns 1 with whatever the reads gave.  The consumer is not followed
\* further.
C_ReadThroughBadEx ==
    /\ ~terminated /\ cpc = "c_ub"
    /\ \/ /\ terminated' = TRUE
          /\ UNCHANGED << cpc, consumerObs >>
       \/ /\ out' = Indeterminate
          /\ delivered' = Append(delivered, out')
          /\ nextRet' = 1
          /\ cpc' = "c_ubret"
          /\ UNCHANGED terminated
    /\ UNCHANGED << calledStopped, flagVars, countVars, ringVars, cfgVars, current,
                    examples_state_lock, joinable, srcPos, wpc, kpc, nthreads, starts >>

\* finalize_example(): examples_ring->finalize_example(free_after_release)
C_Finalize ==
    /\ ~terminated /\ cpc = "c_have"
    /\ ex_ring' = FinalizeExample(ex_ring, ReadSlot, free_after_release)
    /\ read_idx' = read_idx + 1
    /\ cpc' = "c_idle"
    /\ UNCHANGED << flagVars, countVars, write_idx, cfgVars, consumerObs, current,
                    examples_state_lock, joinable, srcPos, wpc, kpc, nthreads,
                    terminated, starts >>

Consumer ==
    \/ C_Call \/ C_Loop \/ C_Rd \/ C_Lock \/ C_GetUnused \/ C_Woken
    \/ C_Fill \/ C_ReadThroughBadEx \/ C_Finalize

\* ------------------------------------------------------------- controller
\* init(input_file, is_labelled, size)
K_Init ==
    /\ ~terminated /\ kpc = "k_new"
    /\ \E is_labelled \in BOOLEAN, size \in 1..MaxRing :
          /\ example_type' = IF is_labelled THEN "E_LABELLED" ELSE "E_UNLABELLED"
          /\ ex_ring' = RingInit(size)
          /\ ring_size' = size
    /\ write_idx' = 0
    /\ read_idx' = 0
    /\ parsing_done' = FALSE
    /\ reading_done' = FALSE
    /\ number_of_vectors_parsed' = 0
    /\ number_of_vectors_read' = 0
    /\ current' = [current EXCEPT !.len = -1, !.label = -1, !.fv = 0]
    /\ kpc' = "k_idle"
    /\ UNCHANGED << keep_running, srcN, srcMalformed, consumerObs, examples_state_lock,
                    joinable, srcPos, wpc, cpc, nthreads, terminated, starts >>

\* is_running(): if (parsing_done) ret = !reading_done; else ret = false;
IsRunningValue == IF parsing_done THEN ~reading_done ELSE FALSE

\* is_running() called by the controlling thread; the result is its position
\* until K_Return.
K_IsRunning ==
    /\ ~terminated /\ kpc = "k_idle"
    /\ examples_state_lock = "free"
    /\ kpc' = IF IsRunningValue THEN "k_isrunning_true" ELSE "k_isrunning_false"
    /\ UNCHANGED << flagVars, countVars, ringVars, cfgVars, consumerObs, current,
                    examples_state_lock, joinable, srcPos, wpc, cpc, nthreads,
                    terminated, starts >>

\* start_parser(): if (is_running()) error(...), which throws.
K_StartCheck ==
    /\ ~terminated /\ kpc = "k_idle"
    /\ starts < MaxStarts
    /\ examples_state_lock = "free"
    /\ kpc' = IF IsRunningValue THEN "k_start_error" ELSE "k_start_store"
    /\ UNCHANGED << flagVars, countVars, ringVars, cfgVars, consumerObs, current,
                    examples_state_lock, joinable, srcPos, wpc, cpc, nthreads,
                    terminated, starts >>

\* Mutant of K_StartStore: keep_running is not set.
K_StartStore_NoStore ==
    /\ ~terminated /\ kpc = "k_start_store"
    /\ kpc' = "k_start_spawn"
    /\ calledStopped' = FALSE
    /\ UNCHANGED << flagVars, countVars, ringVars, cfgVars, out, nextRet, delivered,
                    current, examples_state_lock, joinable, srcPos, wpc, cpc, nthreads,
                    terminated, starts >>

\* examples_ring->init_vector(); keep_running.store(true)
K_StartStore ==
    /\ ~terminated /\ kpc = "k_start_store"
    /\ ex_ring' = InitVector(ex_ring)
    /\ keep_running' = TRUE
    /\ kpc' = "k_start_spawn"
    /\ calledStopped' = FALSE
    /\ UNCHANGED << parsing_done, reading_done, countVars, write_idx, read_idx, cfgVars,
                    out, nextRet, delivered, current, examples_state_lock, joinable, srcPos, wpc,
                    cpc, nthreads, terminated, starts >>

\* parse_thread = std::thread(&parse_loop_entry_point, this): the new thread
\* is created first; assigning it to a parse_thread that is still joinable
\* calls std::terminate (the new thread's steps before that are not followed).
K_StartSpawn ==
    /\ ~terminated /\ kpc = "k_start_spawn"
    /\ nthreads' = nthreads + 1
    /\ starts' = starts + 1
    /\ IF joinable
       THEN /\ terminated' = TRUE
            /\ UNCHANGED << wpc, kpc, joinable >>
       ELSE /\ wpc' = "w_loop"
            /\ joinable' = TRUE
            /\ kpc' = "k_idle"
            /\ UNCHANGED terminated
    /\ UNCHANGED << flagVars, countVars, ringVars, cfgVars, consumerObs, current,
                    examples_state_lock, srcPos, cpc >>

\* exit_parser(): keep_running.store(false)
K_AbortStore ==
    /\ ~terminated /\ kpc = "k_idle"
    /\ keep_running' = FALSE
    /\ kpc' = "k_abort_notify"
    /\ UNCHANGED << parsing_done, reading_done, countVars, ringVars, cfgVars, consumerObs,
                    current, examples_state_lock, joinable, srcPos, wpc, cpc, nthreads,
                    terminated, starts >>

\* examples_state_changed.notify_one()
K_AbortNotify ==
    /\ ~terminated /\ kpc = "k_abort_notify"
    /\ cpc' = NotifyOne(cpc)
    /\ kpc' = "k_abort_join"
    /\ UNCHANGED << flagVars, countVars, ringVars, cfgVars, consumerObs, current,
                    examples_state_lock, joinable, srcPos, wpc, nthreads,
                    terminated, starts >>

\* end_parser(): called
K_End ==
    /\ ~terminated /\ kpc = "k_idle"
    /\ kpc' = "k_end_join"
    /\ UNCHANGED << flagVars, countVars, ringVars, cfgVars, consumerObs, current,
                    examples_state_lock, joinable, srcPos, wpc, cpc, nthreads,
                    terminated, starts >>

\* if (parse_thread.joinable()) parse_thread.join(); in end_parser and
\* exit_parser: returns once the parse thread has returned.
K_Join ==
    /\ ~terminated /\ kpc \in {"k_abort_join", "k_end_join"}
    /\ joinable => wpc = "w_done"
    /\ joinable' = FALSE
    /\ kpc' = IF kpc = "k_abort_join" THEN "k_abort_returned" ELSE "k_end_returned"
    /\ UNCHANGED << flagVars, countVars, ringVars, cfgVars, consumerObs, current,
                    examples_state_lock, srcPos, wpc, cpc, nthreads, terminated, starts >>

\* A call of the controlling thread has returned (or thrown): it is free to
\* make the next one.
K_Return ==
    /\ ~terminated
    /\ kpc \in {"k_isrunning_true", "k_isrunning_false", "k_start_error",
                "k_abort_returned", "k_end_returned"}
    /\ kpc' = "k_idle"
    /\ UNCHANGED << flagVars, countVars, ringVars, cfgVars, consumerObs, current,
                    examples_state_lock, joinable, srcPos, wpc, cpc, nthreads,
                    terminated, starts >>

Controller ==
    \/ K_Init \/ K_IsRunning \/ K_StartCheck \/ K_StartStore \/ K_StartSpawn
    \/ K_AbortStore \/ K_AbortNotify \/ K_End \/ K_Join \/ K_Return

\* ------------------------------------------------------------- specification
Next == Worker \/ Consumer \/ C_SpuriousWakeup \/ Controller

Spec == Init /\ [][Next]_vars

\* ------------------------------------------------------------- scheduling
\* Steps inside a call of the consumer or of the controlling thread: a
\* running thread takes its next step.  Whether and when a caller makes its
\* next call (C_Call, C_Finalize, the controller's calls) is up to the caller,
\* and a wait need not wake without a notification.
InCallConsumer ==
    C_Loop \/ C_Rd \/ C_Lock \/ C_GetUnused \/ C_Woken \/ C_Fill \/ C_ReadThroughBadEx

InCallController ==
    K_StartStore \/ K_StartSpawn \/ K_AbortNotify \/ K_Join \/ K_Return

FairSpec ==
    /\ Init /\ [][Next]_vars
    /\ WF_vars(Worker)
    /\ WF_vars(InCallConsumer)
    /\ WF_vars(InCallController)

\* One run as the class comment describes it: init, start_parser once, the
\* consumer's get_next_example / finalize_example, end_parser; exit_parser is
\* not called.
K_FirstStart == starts = 0 /\ K_StartCheck

RunConsumer ==
    C_Call \/ C_Loop \/ C_Rd \/ C_Lock \/ C_GetUnused \/ C_Woken \/ C_Fill \/ C_Finalize

RunController ==
    K_Init \/ K_FirstStart \/ K_StartStore \/ K_StartSpawn \/ K_IsRunning
    \/ K_End \/ K_Join \/ K_Return

RunNext == Worker \/ RunConsumer \/ C_SpuriousWakeup \/ RunController

\* The consumer keeps calling get_next_example, and finalize_example after each
\* call that returned 1.
RunSpec ==
    /\ Init /\ [][RunNext]_vars
    /\ WF_vars(Worker)
    /\ WF_vars(RunConsumer)
    /\ WF_vars(K_StartStore \/ K_StartSpawn \/ K_Join \/ K_Return)

\* ------------------------------------------------------------- claims
\* A get_next_example call has returned to the consumer.
NextReturned == cpc \in {"c_idle", "c_have", "c_ubret"} /\ nextRet # -1

\* The parse thread exists and has not returned from main_parse_loop.
WorkerLive == wpc \notin {"w_none", "w_done"}

\* What the consumer is to receive for the k-th example of the source.
ExpectedExample(k) ==
    [fv |-> SourceExample(k).fv, length |-> SourceExample(k).length,
     label |-> IF example_type = "E_LABELLED" THEN SourceExample(k).label
               ELSE NoExample.label]

\* C1: the examples returned by the calls of get_next_example that returned 1
\* are, at every moment, the first examples of the source, in its order: the
\* k-th such call returned the k-th source example.
C1_FifoDelivery ==
    \A k \in 1..Len(delivered) : k <= srcN /\ delivered[k] = ExpectedExample(k)

\* C3: a get_next_example call that began after exit_parser cleared
\* keep_running has, once returned, returned 0 and handed out nothing.
C3_NextAfterAbortReturnsZero ==
    (calledStopped /\ NextReturned) => nextRet = 0

\* C7: a record of length 0 ends the stream like a negative length: it is
\* not published or counted, and no example of length 0 reaches the consumer.
C7_ZeroLengthIsEndOfStream ==
    /\ write_idx <= srcN
    /\ number_of_vectors_parsed <= srcN
    /\ \A k \in 1..Len(delivered) : delivered[k].length # 0

\* C8: start_parser gets past its is_running check only when no parse thread
\* is live, and at most one parse thread exists at any time.
C8_StartTwiceRejected ==
    /\ nthreads <= 1
    /\ kpc \in {"k_start_store", "k_start_spawn"} => ~WorkerLive

\* C9: is_running() returns true exactly when parsing is not done or parsed
\* examples remain unread.
C9_IsRunningMeaning ==
    [][(kpc = "k_idle" /\ kpc' \in {"k_isrunning_true", "k_isrunning_false"})
        => ((kpc' = "k_isrunning_true")
              <=> (~parsing_done \/ number_of_vectors_read < number_of_vectors_parsed))]_vars

\* C2: in a run whose source holds srcN examples and then ends with a negative
\* length, a consumer that keeps calling never receives more than srcN
\* examples, and once the parser is started a call eventually returns 0 with
\* exactly the srcN source examples handed out before it.
C2_NoLossBeforeEof ==
    /\ [](~srcMalformed => Len(delivered) <= srcN)
    /\ (~srcMalformed /\ starts >= 1)
          ~> (/\ cpc = "c_idle" /\ nextRet = 0
              /\ delivered = [k \in 1..srcN |-> ExpectedExample(k)])

C2_Witness ==
    /\ ~srcMalformed /\ srcN = MaxN /\ ring_size = 1
    /\ cpc = "c_idle" /\ nextRet = 0
    /\ Len(delivered) = srcN

\* C4: when exit_parser clears keep_running while the consumer is inside a
\* get_next_example call that began before it (about to test keep_running, or
\* waiting on examples_state_changed), that call eventually returns 0, unless
\* start_parser sets keep_running again first.
C4_AbortDuringNextReturnsZero ==
    (~calledStopped /\ ~keep_running /\ cpc \in {"c_loop", "c_wait", "c_woken"})
        ~> ((cpc = "c_idle" /\ nextRet = 0) \/ keep_running)

\* C5: exit_parser always gets to return: while it waits in join, the join can
\* return, or the parse thread or a consumer call in progress can take a step
\* (no further finalize_example or get_next_example call is needed).
C5_AbortReturns ==
    (kpc = "k_abort_join" /\ ~terminated)
        => ENABLED (K_Join \/ Worker \/ InCallConsumer)

\* C6: in a run without exit_parser, once a get_next_example call has returned
\* 0 the parse thread has set parsing_done and has returned from its loop (it
\* stays so), and an end_parser call waiting then returns.
C6_NaturalTermination ==
    /\ []((cpc = "c_idle" /\ nextRet = 0) => (parsing_done /\ wpc = "w_done"))
    /\ (cpc = "c_idle" /\ nextRet = 0 /\ kpc = "k_end_join") ~> (kpc = "k_end_returned")

C6_Witness ==
    /\ cpc = "c_idle" /\ nextRet = 0 /\ kpc = "k_end_join" /\ joinable
    /\ srcN = MaxN /\ Len(delivered) = srcN

\* C10 as claimed: a start_parser call that spawns leaves keep_running true,
\* both flags false and both counters 0 for the new parse thread.
C10_StartResetsState ==
    [][(kpc = "k_start_spawn" /\ kpc' = "k_idle")
        => (/\ keep_running' /\ ~parsing_done' /\ ~reading_done'
            /\ number_of_vectors_parsed' = 0 /\ number_of_vectors_read' = 0)]_vars

\* C10 as amended: a start_parser call that spawns leaves keep_running true
\* for the new parse thread and the flags and counters as they were: false
\* and 0 at the first start after init, as the previous run left them after.
C10_StartSetsKeepRunningOnly ==
    [][(kpc = "k_start_spawn" /\ kpc' = "k_idle")
        => (/\ keep_running' /\ wpc' = "w_loop"
            /\ UNCHANGED << parsing_done, reading_done, countVars >>
            /\ starts = 0 => (/\ ~parsing_done' /\ ~reading_done'
                              /\ number_of_vectors_parsed' = 0
                              /\ number_of_vectors_read' = 0))]_vars

\* A second start after a run that was read to its end: the flags are still set.
C10_Witness ==
    /\ starts = 2 /\ kpc = "k_idle" /\ wpc = "w_loop" /\ ~terminated
    /\ keep_running /\ parsing_done /\ reading_done
    /\ number_of_vectors_parsed = MaxN

\* The slots in state s.
SlotsIn(s) == {i \in DOMAIN ex_ring : ex_ring[i].state = s}

\* The state tag of every slot.
SlotStates == [i \in DOMAIN ex_ring |-> ex_ring[i].state]

\* The consumer is inside a get_next_example call.
InNextCall == cpc \notin {"c_idle", "c_have", "c_ubret"}

\* C11: with reading_done set, every step of a get_next_example call (the call
\* itself, the test of keep_running, the test of reading_done) stays on the
\* path that returns 0, and changes neither counter, neither flag nor any
\* slot state.
C11_NextAfterReadingDone ==
    [][(reading_done /\ cpc' # cpc)
        => (/\ cpc' \in {"c_loop", "c_rd", "c_idle"}
            /\ cpc' = "c_idle" => nextRet' = 0
            /\ UNCHANGED << countVars, parsing_done, reading_done >>
            /\ SlotStates' = SlotStates)]_vars

\* C12: the examples published and not yet finalized never outnumber the
\* slots of the ring, and the consumer's cursor never passes the producer's.
C12_BoundedResidency ==
    /\ 0 <= read_idx /\ read_idx <= write_idx
    /\ write_idx - read_idx <= ring_size

\* The ring is full and the parse thread waits in get_free_example with
\* source examples still to come.
C12_Witness ==
    /\ ring_size >= 1 /\ write_idx - read_idx = ring_size
    /\ wpc = "w_getfree" /\ srcPos < srcN /\ ~CanGetFree

\* The well-formed examples the source has handed out so far.
SourceProduced == IF srcPos < srcN THEN srcPos ELSE srcN

\* C13: 0 <= number_of_vectors_read <= number_of_vectors_parsed <= the number
\* of examples the source has produced so far, and after init no step
\* decreases either counter.
C13_CounterInvariant ==
    /\ [](/\ 0 <= number_of_vectors_read
          /\ number_of_vectors_read <= number_of_vectors_parsed
          /\ number_of_vectors_parsed <= SourceProduced)
    /\ [][kpc # "k_new"
            => (/\ number_of_vectors_parsed' >= number_of_vectors_parsed
                /\ number_of_vectors_read' >= number_of_vectors_read)]_vars

\* The order in which a slot's state may change.
SlotCycle ==
    {<< "EMPTY", "WRITING" >>, << "WRITING", "READY" >>,
     << "READY", "READING" >>, << "READING", "EMPTY" >>}

\* C14: every slot is EMPTY, WRITING, READY or READING, at most one slot is
\* WRITING and at most one is READING, and a slot's state changes only along
\* EMPTY -> WRITING -> READY -> READING -> EMPTY.
C14_SlotStateInvariant ==
    /\ [](/\ \A i \in DOMAIN ex_ring :
                ex_ring[i].state \in {"EMPTY", "WRITING", "READY", "READING"}
          /\ Cardinality(SlotsIn("WRITING")) <= 1
          /\ Cardinality(SlotsIn("READING")) <= 1)
    /\ [][\A i \in DOMAIN ex_ring :
             \/ ex_ring'[i].state = ex_ring[i].state
             \/ << ex_ring[i].state, ex_ring'[i].state >> \in SlotCycle]_vars

\* The parse thread fills one slot of a ring that has wrapped around while
\* the consumer holds the other.
C14_Witness ==
    /\ ring_size = 2 /\ write_idx >= ring_size
    /\ SlotsIn("WRITING") # {} /\ SlotsIn("READING") # {}

\* The example a slot holds.
Payload(slot) == [fv |-> slot.fv, length |-> slot.length, label |-> slot.label]

\* C15: the parse thread stores an example only into a slot that is WRITING,
\* get_next_example reads only a slot that is READING, and from the return
\* of a successful get_next_example to finalize_example the slot still holds
\* what the caller received, which is what the parse thread stored from the
\* source; a slot's example changes only by the parse thread's store while
\* WRITING or by the consumer's release while READING.
C15_ExclusiveSlotAccess ==
    /\ [](/\ wpc = "w_store" => ex_ring[current.example].state = "WRITING"
          /\ cpc = "c_fill" => ex_ring[ReadSlot].state = "READING"
          /\ cpc = "c_have" => (/\ ex_ring[ReadSlot].state = "READING"
                                /\ out = Received(ex_ring[ReadSlot]))
          /\ (cpc = "c_have" /\ read_idx < srcN) => out = ExpectedExample(read_idx + 1))
    /\ [][\A i \in DOMAIN ex_ring :
             Payload(ex_ring'[i]) # Payload(ex_ring[i])
                => \/ ex_ring[i].state = "WRITING" /\ wpc = "w_store"
                   \/ ex_ring[i].state = "READING" /\ cpc = "c_have"]_vars

\* The consumer holds an example it received while the parse thread is about
\* to store the next but one into the other slot.
C15_Witness ==
    /\ ring_size = 2 /\ cpc = "c_have" /\ wpc = "w_store"
    /\ read_idx >= 1 /\ out = ExpectedExample(read_idx + 1)

\* C16: after the parse thread has returned from main_parse_loop (at the end
\* of the stream in particular) no slot is left WRITING.
C16_EofGivesSlotBack ==
    wpc = "w_done" => SlotsIn("WRITING") = {}

\* C17: after init, reading_done implies parsing_done and
\* number_of_vectors_read = number_of_vectors_parsed; it becomes true only in
\* retrieve_example (under the mutex) when that is what it finds; and once true
\* it stays true.
C17_ReadingDoneOnlyAtDrain ==
    /\ []((kpc # "k_new" /\ reading_done)
            => (parsing_done /\ number_of_vectors_read = number_of_vectors_parsed))
    /\ [][(~reading_done /\ reading_done')
            => (/\ cpc = "c_lock" /\ examples_state_lock = "free"
                /\ parsing_done
                /\ number_of_vectors_read = number_of_vectors_parsed)]_vars
    /\ [][(kpc # "k_new" /\ reading_done) => reading_done']_vars

\* reading_done after every example of the largest source was read.
C17_Witness ==
    /\ kpc # "k_new" /\ reading_done /\ srcN = MaxN
    /\ number_of_vectors_read = MaxN

\* C18: once parsing_done is set (after init), no step changes
\* number_of_vectors_parsed or write_idx, clears parsing_done, moves a slot
\* to WRITING or READY, or calls the source's read.
C18_ParsedFinalAfterEof ==
    [][(kpc # "k_new" /\ parsing_done)
        => (/\ UNCHANGED << number_of_vectors_parsed, write_idx, srcPos >>
            /\ parsing_done'
            /\ \A i \in DOMAIN ex_ring :
                  ex_ring'[i].state \in {"WRITING", "READY"}
                     => ex_ring'[i].state = ex_ring[i].state)]_vars

\* A parse thread started again after the end of the stream has returned.
C18_Witness ==
    /\ starts = 2 /\ wpc = "w_done" /\ ~terminated
    /\ keep_running /\ parsing_done /\ number_of_vectors_parsed = MaxN

\* C19: number_of_vectors_parsed trails the publications by at most one, and
\* number_of_vectors_read is the number of slots taken from READY to READING
\* (those finalized since, plus the one being read).
C19_CountersTrailRing ==
    /\ number_of_vectors_parsed <= write_idx
    /\ write_idx <= number_of_vectors_parsed + 1
    /\ number_of_vectors_read = read_idx + Cardinality(SlotsIn("READING"))

\* An example is published and not yet counted while the consumer reads
\* an earlier one.
C19_Witness ==
    /\ wpc = "w_inc" /\ write_idx = number_of_vectors_parsed + 1
    /\ SlotsIn("READING") # {} /\ read_idx >= 1

\* C20: whenever retrieve_example calls get_unused_example (holding the
\* mutex), the slot at read_idx is READY, so the call does not wait.
C20_NoRingWaitUnderMutex ==
    cpc = "c_getunused" => (examples_state_lock = "consumer" /\ CanGetUnused)

\* The consumer is at get_unused_example with the mutex held while the parse
\* thread is about to lock it.
C20_Witness ==
    /\ cpc = "c_getunused" /\ wpc = "w_check" /\ read_idx >= 1

\* exit_parser has cleared keep_running and has not returned yet.
AbortInProgress == kpc \in {"k_abort_notify", "k_abort_join"}

\* keep_running is cleared and the parse thread is joined: an exit_parser
\* call has been through its join (or found nothing to join) and
\* start_parser has not run since.
Stopped == starts >= 1 /\ ~keep_running /\ ~joinable

\* The publications the parse thread can still make without passing its test
\* of keep_running again: one while it is inside an iteration and has not yet
\* called copy_example, none otherwise.
PendingPublication ==
    IF wpc \in {"w_check", "w_getfree", "w_read", "w_store", "w_copy"} THEN 1 ELSE 0

\* C21: from the store that clears keep_running to the return of exit_parser
\* the parse thread publishes at most the example of the iteration in progress
\* (publications made plus the one still possible never grow); when
\* exit_parser has returned the parse thread has returned; from then on no
\* step changes number_of_vectors_parsed, parsing_done or write_idx or moves a
\* slot to WRITING or READY; and the steps of a further exit_parser call
\* change no member of the parser and nothing in the ring.
C21_AbortFreezesProducer ==
    /\ [](kpc = "k_abort_returned" => (~keep_running /\ ~joinable /\ ~WorkerLive))
    /\ [][AbortInProgress
            => write_idx' + PendingPublication' <= write_idx + PendingPublication]_vars
    /\ [][Stopped
            => (/\ UNCHANGED << number_of_vectors_parsed, parsing_done, write_idx >>
                /\ \A i \in DOMAIN ex_ring :
                      ex_ring'[i].state \in {"WRITING", "READY"}
                         => ex_ring'[i].state = ex_ring[i].state)]_vars
    /\ [][(/\ Stopped
           /\ kpc' # kpc
           /\ kpc' \in {"k_abort_notify", "k_abort_join", "k_abort_returned"})
            => UNCHANGED << flagVars, countVars, ringVars, current, joinable,
                            nthreads, srcPos >>]_vars

\* exit_parser has returned from a run it cut short: examples were published,
\* the source has more, and the parse thread has returned.
C21_Witness ==
    /\ kpc = "k_abort_returned" /\ starts = 1 /\ wpc = "w_done"
    /\ ~parsing_done /\ write_idx >= 1 /\ write_idx < srcN

=============================================================================
